---- MODULE Spec2Model ----
(***************************************************************************)
(* RealBiometricCapture (src/src/components/RealBiometricCapture.tsx):     *)
(* the three audio estimators (processAudioSignal, generateEEGBands,       *)
(* estimateEmotion) and the animation-frame loop that drives them          *)
(* (processAudioFrame, initializeAudio, the start/stop effect).            *)
(*                                                                         *)
(* Numbers.  A sample is an integer v standing for the amplitude           *)
(* v / SampleScale.  A JavaScript number that the code can turn into NaN   *)
(* or Infinity is a fraction [num, den] with den >= 0: den = 0 is          *)
(* +-Infinity when num # 0 and NaN when num = 0, which is what IEEE        *)
(* division by zero gives.  Fractions are exact; floating-point rounding   *)
(* is not modelled.  Math.sqrt and Math.tanh are fixed-point               *)
(* approximations (ISqrt, MathTanh).                                       *)
(*                                                                         *)
(* Frames.  A Float32Array is [len, nz]: its length and the function from  *)
(* the indices that hold a non-zero sample to that sample; every other     *)
(* index holds 0.  The code's loops over 0..len-1 are sums over DOMAIN nz, *)
(* the only indices whose terms are not 0.                                 *)
(***************************************************************************)
EXTENDS Integers, Sequences, FiniteSets, TLC

VARIABLES
  \* props and React state of the component
  isRecording, hasMicLevel, isInitialized, heartRate, breathingRate, emotion, eegBands, micLevel,
  \* refs
  audioContextRef, analyserRef, animationFrameRef, microphoneRef,
  \* React: whether the component is mounted
  mounted,
  \* the browser: pending animation-frame callbacks, the id counter, async calls in flight
  rafQueue, rafCounter, tasks,
  \* React: the dependencies of the effect that ran last
  committed,
  \* observation: the frame last handed to the estimators, which estimators
  \* ran on it, what the last processAudioFrame call did, and counters
  dataArray, applied, lastTick, ticks, samples, stopped, midTickStop,
  \* the consuming page: emotionData, how many handler updates it has taken,
  \* the capturing state, the video element's stream, startBiometricCapture
  \* calls in flight, pending `process` callbacks and what the last one did
  emotionData, updates, capturing, srcObject, cameraTasks, processQueue, lastProcess,
  \* observation: how often each estimator has been called on dataArray on its own
  calls

compVars == <<isRecording, hasMicLevel, isInitialized, heartRate, breathingRate, emotion, eegBands, micLevel>>
refVars == <<audioContextRef, analyserRef, animationFrameRef, microphoneRef>>
envVars == <<rafQueue, rafCounter, tasks, committed, mounted>>
obsVars == <<dataArray, applied, lastTick, ticks, samples, stopped, midTickStop, calls>>
pageVars == <<emotionData, updates, capturing, srcObject, cameraTasks, processQueue, lastProcess>>
vars == <<compVars, refVars, envVars, obsVars, pageVars>>

----------------------------------------------------------------------------
(* Bounds of the model *)

\* samples are multiples of 1/SampleScale
SampleScale == 100
\* longest explicitly enumerated run of samples at the start of a frame
MaxHead == 6
\* length of the long, sparse frames the estimators are applied to
LongLength == 200000
\* processAudioFrame calls in one behaviour
MaxTicks == 4
\* async startIfNeeded calls in flight at once
MaxTasks == 2
\* calls of one estimator on the same frame
MaxCalls == 2
\* handler updates of the page's emotionData in one behaviour
MaxUpdates == 3

(* Program constants *)

\* new AudioContext({ sampleRate: 44100 }) and the || 44100 fallback
SampleRate == 44100
\* analyser.fftSize
FftSize == 2048
\* heart-rate default and clamp
HeartRateDefault == 60
HeartRateMin == 60
HeartRateMax == 120
\* breathing-rate clamp and default
BreathingRateMin == 8
BreathingRateMax == 20
BreathingRateDefault == 12

----------------------------------------------------------------------------
(* JavaScript numbers *)

NaN == [num |-> 0, den |-> 0]

Sign(a) == IF a > 0 THEN 1 ELSE IF a < 0 THEN -1 ELSE 0

Abs(a) == IF a < 0 THEN -a ELSE a

\* a / b in IEEE arithmetic: x/0 is an infinity, 0/0 is NaN
Div(a, b) ==
  IF b = 0 THEN [num |-> Sign(a), den |-> 0]
  ELSE IF b < 0 THEN [num |-> -a, den |-> -b]
  ELSE [num |-> a, den |-> b]

Num(a) == [num |-> a, den |-> 1]

IsNaN(x) == x.num = 0 /\ x.den = 0

\* x <= y; false when either is NaN
Le(x, y) == ~IsNaN(x) /\ ~IsNaN(y) /\ x.num * y.den <= y.num * x.den

MathMin(x, y) == IF IsNaN(x) \/ IsNaN(y) THEN NaN ELSE IF Le(x, y) THEN x ELSE y

MathMax(x, y) == IF IsNaN(x) \/ IsNaN(y) THEN NaN ELSE IF Le(x, y) THEN y ELSE x

\* Math.round of a finite number: floor(x + 1/2)
MathRound(x) == (2 * x.num + x.den) \div (2 * x.den)

\* lo <= x <= hi, x a number (not NaN)
InRange(x, lo, hi) == Le(Num(lo), x) /\ Le(x, Num(hi))

RECURSIVE SqrtSearch(_, _, _)
SqrtSearch(n, lo, hi) ==
  IF lo >= hi THEN lo
  ELSE LET mid == (lo + hi + 1) \div 2
       IN IF mid * mid <= n THEN SqrtSearch(n, mid, hi) ELSE SqrtSearch(n, lo, mid - 1)

\* floor of the square root of n >= 0
ISqrt(n) == SqrtSearch(n, 0, IF n < 46340 THEN n ELSE 46340)

\* 1000 * tanh(k / 10), k = 0..43, rounded
TanhTable ==
  <<0, 100, 197, 291, 380, 462, 537, 604, 664, 716, 762, 800, 834, 862, 885,
    905, 922, 935, 947, 956, 964, 970, 976, 980, 984, 987, 989, 991, 993, 994,
    995, 996, 997, 997, 998, 998, 999, 999, 999, 999, 999, 999, 1000, 1000>>

\* Math.tanh to three decimals, by linear interpolation in TanhTable; NaN for NaN
MathTanh(x) ==
  IF IsNaN(x) THEN NaN
  ELSE LET m == (x.num * 1000) \div x.den
           a == Abs(m)
           k == a \div 100
           t == IF k >= 43 THEN 1000
                ELSE TanhTable[k + 1]
                     + ((TanhTable[k + 2] - TanhTable[k + 1]) * (a % 100)) \div 100
       IN Div(Sign(m) * t, 1000)

RECURSIVE SumOver(_, _)
\* the sum of g[i] over the finite set S
SumOver(S, g) ==
  IF S = {} THEN 0
  ELSE LET i == CHOOSE j \in S : TRUE IN g[i] + SumOver(S \ {i}, g)

RECURSIVE SortedSeq(_)
\* the elements of a finite set of integers in increasing order
SortedSeq(S) ==
  IF S = {} THEN <<>>
  ELSE LET m == CHOOSE j \in S : \A k \in S : j <= k IN <<m>> \o SortedSeq(S \ {m})

----------------------------------------------------------------------------
(* Frames *)

\* audioData[i]
At(f, i) == IF i \in DOMAIN f.nz THEN f.nz[i] ELSE 0

\* the frame of length n that starts with the samples h[0..k-1] and is 0 after them
MkFrame(n, k, h) ==
  [len |-> n, nz |-> [i \in {j \in 0..(k - 1) : h[j] # 0} |-> h[i]]]

----------------------------------------------------------------------------
(* processAudioSignal *)

\* totalEnergy, in units of 1/SampleScale^2
TotalEnergy(f) == SumOver(DOMAIN f.nz, [i \in DOMAIN f.nz |-> f.nz[i] * f.nz[i]])

\* v > rmsEnergy * 1.5 with rmsEnergy = sqrt(totalEnergy / n), n > 0:
\* both sides squared (the right side is >= 0)
ExceedsThreshold(v, totalEnergy, n) == v > 0 /\ 4 * v * v * n > 9 * totalEnergy

\* Peaks with the walk running over the first and last index too, a missing
\* neighbour counting as 0
PeaksWithEnds(f) ==
  SortedSeq({i \in DOMAIN f.nz :
               /\ ExceedsThreshold(At(f, i), TotalEnergy(f), f.len)
               /\ At(f, i) > At(f, i - 1)
               /\ At(f, i) > At(f, i + 1)})

\* Peaks without the comparison with the two neighbours
PeaksAboveThreshold(f) ==
  SortedSeq({i \in DOMAIN f.nz :
               /\ 1 <= i /\ i < f.len - 1
               /\ ExceedsThreshold(At(f, i), TotalEnergy(f), f.len)})

\* the indices pushed to peaks, in the order pushed
Peaks(f) ==
  SortedSeq({i \in DOMAIN f.nz :
               /\ 1 <= i /\ i < f.len - 1
               /\ ExceedsThreshold(At(f, i), TotalEnergy(f), f.len)
               /\ At(f, i) > At(f, i - 1)
               /\ At(f, i) > At(f, i + 1)})

\* HeartRateOf without the upper clamp Math.min(120, bpm)
HeartRateOfUnclamped(peaks, sampleRate) ==
  IF Len(peaks) > 1
  THEN LET bpm == Div(sampleRate * 60 * (Len(peaks) - 1), peaks[Len(peaks)] - peaks[1])
       IN MathMax(Num(HeartRateMin), bpm)
  ELSE Num(HeartRateDefault)

\* HeartRateOf with the default taken from the upper clamp
HeartRateOfDefaultAtClamp(peaks, sampleRate) ==
  IF Len(peaks) > 1
  THEN LET bpm == Div(sampleRate * 60 * (Len(peaks) - 1), peaks[Len(peaks)] - peaks[1])
       IN MathMax(Num(HeartRateMin), MathMin(Num(HeartRateMax), bpm))
  ELSE Num(HeartRateMax)

\* HeartRateOf with avgInterval taken over peaks.length, not peaks.length - 1
HeartRateOfPerPeak(peaks, sampleRate) ==
  IF Len(peaks) > 1
  THEN LET bpm == Div(sampleRate * 60 * Len(peaks), peaks[Len(peaks)] - peaks[1])
       IN MathMax(Num(HeartRateMin), MathMin(Num(HeartRateMax), bpm))
  ELSE Num(HeartRateDefault)

\* heartRate before Math.round
HeartRateOf(peaks, sampleRate) ==
  IF Len(peaks) > 1
  THEN LET bpm == Div(sampleRate * 60 * (Len(peaks) - 1), peaks[Len(peaks)] - peaks[1])
       IN MathMax(Num(HeartRateMin), MathMin(Num(HeartRateMax), bpm))
  ELSE Num(HeartRateDefault)

\* BreathingIntervals with i stepping by 1: i = 2, 3, 4, ...
BreathingIntervalsEveryPeak(peaks) ==
  [j \in 1..(Len(peaks) - 2) |-> peaks[j + 2] - peaks[j]]

\* breathingIntervals: peaks[i] - peaks[i-2] for i = 2, 4, ... (0-based)
BreathingIntervals(peaks) ==
  [j \in 1..((Len(peaks) - 1) \div 2) |-> peaks[2 * j + 1] - peaks[2 * j - 1]]

\* BreathingRateOf without the upper clamp Math.min(20, breathingBpm)
BreathingRateOfUnclamped(peaks, sampleRate) ==
  IF Len(peaks) > 2
  THEN LET iv == BreathingIntervals(peaks)
           total == SumOver(DOMAIN iv, iv)
       IN MathMax(Num(BreathingRateMin), Div(sampleRate * 30 * Len(iv), total))
  ELSE Num(BreathingRateDefault)

\* breathingRate before Math.round
BreathingRateOf(peaks, sampleRate) ==
  IF Len(peaks) > 2
  THEN LET iv == BreathingIntervals(peaks)
       IN IF Len(iv) > 0
          THEN LET total == SumOver(DOMAIN iv, iv)
                   breathingBpm == Div(sampleRate * 30 * Len(iv), total)
               IN MathMax(Num(BreathingRateMin), MathMin(Num(BreathingRateMax), breathingBpm))
          ELSE Num(BreathingRateDefault)
  ELSE Num(BreathingRateDefault)

\* the divisors of the divisions processAudioSignal performs on f: the frame
\* length, then peaks.length - 1 and avgInterval, then
\* breathingIntervals.length and avgBreathingInterval, as a fraction each
Divisors(f) ==
  LET peaks == Peaks(f)
      iv == BreathingIntervals(peaks)
  IN {Num(f.len)}
     \cup (IF Len(peaks) > 1
           THEN {Num(Len(peaks) - 1), Div(peaks[Len(peaks)] - peaks[1], Len(peaks) - 1)}
           ELSE {})
     \cup (IF Len(peaks) > 2 /\ Len(iv) > 0
           THEN {Num(Len(iv)), Div(SumOver(DOMAIN iv, iv), Len(iv))}
           ELSE {})

ProcessAudioSignal(f, sampleRate) ==
  LET peaks == Peaks(f)
  IN [heartRate |-> MathRound(HeartRateOf(peaks, sampleRate)),
      breathingRate |-> MathRound(BreathingRateOf(peaks, sampleRate))]

----------------------------------------------------------------------------
(* generateEEGBands *)

\* the bands object, frequencies in tenths of a hertz
Bands ==
  [delta |-> [min |-> 5, max |-> 40],
   theta |-> [min |-> 40, max |-> 80],
   alpha |-> [min |-> 80, max |-> 130],
   beta |-> [min |-> 130, max |-> 300],
   gamma |-> [min |-> 300, max |-> 1000]]

BandNames == DOMAIN Bands

\* Math.floor(data.length * (maxFreq - minFreq) / (sampleRate / 2))
WindowSize(f, minFreq, maxFreq, sampleRate) ==
  (2 * f.len * (maxFreq - minFreq)) \div (10 * sampleRate)

\* Math.floor(data.length * minFreq / (sampleRate / 2))
StartIdx(f, minFreq, sampleRate) == (2 * f.len * minFreq) \div (10 * sampleRate)

\* power / windowSize
CalculateBandPower(f, minFreq, maxFreq, sampleRate) ==
  LET windowSize == WindowSize(f, minFreq, maxFreq, sampleRate)
      startIdx == StartIdx(f, minFreq, sampleRate)
      stop == IF startIdx + windowSize < f.len THEN startIdx + windowSize ELSE f.len
      power == SumOver({i \in DOMAIN f.nz : startIdx <= i /\ i < stop},
                       [i \in DOMAIN f.nz |-> f.nz[i] * f.nz[i]])
  IN Div(power, windowSize * SampleScale * SampleScale)

\* Math.min(1, power * 1000)
BandValue(power) == MathMin(Num(1), [num |-> power.num * 1000, den |-> power.den])

GenerateEEGBands(f, sampleRate) ==
  [b \in BandNames |->
     BandValue(CalculateBandPower(f, Bands[b].min, Bands[b].max, sampleRate))]

----------------------------------------------------------------------------
(* estimateEmotion *)

\* Math.sqrt(sum of squares / length), to 1/(100 * SampleScale); 0/0 is NaN.
\* floor(10000 * e / len) is taken quotient and remainder apart
Rms(f) ==
  IF f.len = 0 THEN NaN
  ELSE LET e == TotalEnergy(f)
       IN Div(ISqrt((e \div f.len) * 10000 + ((e % f.len) * 10000) \div f.len),
              100 * SampleScale)

\* the number of i > 0 with (audioData[i] >= 0) !== (audioData[i-1] >= 0)
ZeroCrossings(f) ==
  LET neg == {i \in DOMAIN f.nz : f.nz[i] < 0}
  IN Cardinality({i \in neg \cup {j + 1 : j \in neg} :
                    /\ i > 0 /\ i < f.len
                    /\ (At(f, i) >= 0) # (At(f, i - 1) >= 0)})

ZeroCrossingRate(f) == Div(ZeroCrossings(f), f.len)

\* centroid in hertz: weightedSum / magnitudeSum with
\* freq = (i / length) * (sampleRate / 2), else the default 1000.  The mean
\* index over the length is taken in thousandths, so the result is within
\* sampleRate / 2000 of the exact value
Centroid(f, sampleRate) ==
  LET magnitudeSum == SumOver(DOMAIN f.nz, [i \in DOMAIN f.nz |-> Abs(f.nz[i])])
      weighted == SumOver(DOMAIN f.nz, [i \in DOMAIN f.nz |-> i * Abs(f.nz[i])])
  IN IF f.len > 0 /\ magnitudeSum > 0
     THEN (sampleRate * ((weighted * 1000) \div (f.len * magnitudeSum))) \div 2000
     ELSE 1000

\* floor(1000 * c * x) for a finite x
Milli(x, c) == (x.num * 1000 * c) \div x.den

EstimateEmotion(f, sampleRate) ==
  LET rms == Rms(f)
      zcr == ZeroCrossingRate(f)
      centroid == Centroid(f, sampleRate)
      undefined == IsNaN(rms) \/ IsNaN(zcr)
      \* (centroid - 1000) / 500 + (zeroCrossingRate - 0.1) * 10
      valenceArg == IF IsNaN(zcr) THEN NaN
                    ELSE Div(2 * (centroid - 1000) + Milli(zcr, 10) - 1000, 1000)
      \* rms * 100 + centroid / 2000
      arousalArg == IF IsNaN(rms) THEN NaN
                    ELSE Div(Milli(rms, 100) + centroid \div 2, 1000)
      \* rms * 50 + (1 - zeroCrossingRate)
      dominanceArg == IF undefined THEN NaN
                      ELSE Div(Milli(rms, 50) + 1000 - Milli(zcr, 1), 1000)
  IN [valence |-> MathMax(Num(-1), MathMin(Num(1), MathTanh(valenceArg))),
      arousal |-> MathMax(Num(0), MathMin(Num(1), MathTanh(arousalArg))),
      dominance |-> MathMax(Num(0), MathMin(Num(1), MathTanh(dominanceArg)))]

\* MicLevelOf without the upper clamp Math.min(1, ...)
MicLevelOfUnclamped(f) ==
  LET rms == Rms(f)
  IN MathMax(Num(0), [num |-> rms.num * 10, den |-> rms.den])

\* Math.min(1, Math.max(0, rms * 10)) of processAudioFrame
MicLevelOf(f) ==
  LET rms == Rms(f)
  IN MathMin(Num(1), MathMax(Num(0), [num |-> rms.num * 10, den |-> rms.den]))

----------------------------------------------------------------------------
(* processAudioFrame *)

\* analyser.frequencyBinCount
FrameLength == FftSize \div 2

SampleValues == {-SampleScale, 0, 1, SampleScale}

\* frames of FrameLength and of k <= MaxHead samples: every choice of the
\* first k samples, 0 after them
ShortFrames ==
  UNION {{MkFrame(n, k, h) : n \in {k, FrameLength}, h \in [0..(k - 1) -> SampleValues]} :
           k \in 0..MaxHead}

\* where the long frames may hold a pulse
PulsePositions == {1, 30001, 75001, LongLength - 2}

\* frames of LongLength samples, 0 but for unit pulses a second or so apart
LongFrames == {[len |-> LongLength, nz |-> [i \in P |-> 1]] : P \in SUBSET PulsePositions}

\* the frame of n samples that holds the pulse a at p, p + d, p + 2d, ...
PulseTrain(n, d, p, a) ==
  [len |-> n, nz |-> [i \in {p + k * d : k \in 0..((n - 1 - p) \div d)} |-> a]]

\* the spacings of the long pulse trains: heart rates above, inside and
\* below the clamp at 44100 Hz
TrainSpacings == {LongLength \div 10, LongLength \div 6, LongLength \div 4}

\* periodic trains of unit pulses over LongLength samples
PulseTrains == {PulseTrain(LongLength, d, p, 1) : d \in TrainSpacings, p \in {0, 1}}

\* frames of FrameLength samples with full-scale pulses next to both ends
\* and in the middle: the widest peak spacings an analyser frame can hold
EdgePulseFrames ==
  {[len |-> FrameLength, nz |-> [i \in P |-> SampleScale]] :
     P \in SUBSET {1, FrameLength \div 2, FrameLength - 2}}

\* the frames the estimators are applied to on their own
Frames == ShortFrames \cup LongFrames \cup PulseTrains \cup EdgePulseFrames

\* the frames getFloatTimeDomainData fills in the loop: FrameLength samples,
\* here silence, a pulse train, a small negative offset, both, and a loud frame
QuietFrames ==
  {MkFrame(FrameLength, MaxHead, [i \in 0..(MaxHead - 1) |-> IF i % 2 = 1 THEN a ELSE b]) :
     a \in {0, SampleScale}, b \in {0, -1}}

\* a frame loud enough for rms * 10 to pass 1: a sixteenth of it at full scale
LoudFrame ==
  MkFrame(FrameLength, FrameLength \div 16,
          [i \in 0..(FrameLength \div 16 - 1) |-> IF i % 2 = 1 THEN SampleScale ELSE -SampleScale])

AnalyserFrames == QuietFrames \cup {LoudFrame}

NoFrame == [len |-> 0, nz |-> <<>>]

Zero3 == [valence |-> Num(0), arousal |-> Num(0), dominance |-> Num(0)]

ZeroBands == [b \in BandNames |-> Num(0)]

\* Sinks with onBiometricData called a second time
SinksCalledTwice == <<"onBiometricData", "onBiometricData">>

\* the sinks a sample is handed to, in call order
Sinks == <<"onBiometricData">>

\* what processAudioFrame computes from the frame it read: the three
\* estimators' results and the mic level
Estimate(f) ==
  LET v == ProcessAudioSignal(f, SampleRate)
  IN [heartRate |-> v.heartRate,
      breathingRate |-> v.breathingRate,
      emotion |-> EstimateEmotion(f, SampleRate),
      eegBands |-> GenerateEEGBands(f, SampleRate),
      mic |-> MicLevelOf(f)]

\* Estimate, tabulated over the frames of the loop
AnalyserEstimates == [f \in AnalyserFrames |-> Estimate(f)]

\* the biometricData object built from the estimates e at time now
BiometricSample(e, now) ==
  [heartRate |-> e.heartRate,
   breathingRate |-> e.breathingRate,
   emotion |-> e.emotion,
   eegBands |-> e.eegBands,
   timestamp |-> now]

\* new Float32Array(bufferLength): the array a tick allocates is a new
\* object; arrays are numbered in allocation order, `allocated` were made before
NewFloat32Array(allocated) == allocated + 1

\* FrameAfterTick for estimators that rectify the samples in place
FrameAfterTickRectified(f) == [f EXCEPT !.nz = [i \in DOMAIN f.nz |-> Abs(f.nz[i])]]

\* the contents of dataArray when the tick ends, f being what
\* getFloatTimeDomainData wrote: the estimators, the rms reduce and the
\* waveform drawing only read dataArray[i]
FrameAfterTick(f) == f

\* what a processAudioFrame call that has not happened looks like
NoTick ==
  [outcome |-> "none", rec |-> FALSE, analyser |-> FALSE, events |-> <<>>,
   scheduled |-> 0, stopRequested |-> FALSE, delivered |-> <<>>, no |-> 0,
   micArgs |-> <<>>, buffer |-> 0, read |-> NoFrame]

\* TickEvents with requestAnimationFrame moved before the callbacks
TickEventsRescheduleFirst(mic) ==
  <<"getFloatTimeDomainData", "processAudioSignal", "estimateEmotion", "generateEEGBands",
    "setState", "requestAnimationFrame">>
  \o (IF mic THEN <<"onMicLevel">> ELSE <<>>)
  \o <<"onBiometricData">>

\* the calls processAudioFrame makes, in order, when it passes its guard
TickEvents(mic) ==
  <<"getFloatTimeDomainData", "processAudioSignal", "estimateEmotion", "generateEEGBands",
    "setState">>
  \o (IF mic THEN <<"onMicLevel">> ELSE <<>>)
  \o <<"onBiometricData", "requestAnimationFrame">>

\* PassesGuard without the test of analyserRef.current
PassesGuardRecordingOnly(rec, analyser) == rec

\* the negation of line 179: if (!analyserRef.current || !isRecording) return
PassesGuard(rec, analyser) == analyser /\ rec

\* RequestAnimationFrame that drops the callback
RequestAnimationFrameDropped(queue, id, rec) == queue

\* requestAnimationFrame(processAudioFrame): the pending callbacks after the
\* closure that captured isRecording = rec was queued under `id`
RequestAnimationFrame(queue, id, rec) == queue \cup {[id |-> id, rec |-> rec]}

\* processAudioFrame as the closure that captured isRecording = rec, called
\* when analyserRef.current is `analyser`, the pending callbacks are `queue`
\* and animationFrameRef.current is `ref`.  The frame read and whether a
\* parent callback asks to stop recording (setIsRecording(false)) are inputs.
ProcessAudioFrame(rec, analyser, queue, ref) ==
  IF ~PassesGuard(rec, analyser)
  THEN /\ rafQueue' = queue
       /\ animationFrameRef' = ref
       /\ lastTick' = [NoTick EXCEPT !.outcome = "returned", !.rec = rec,
                                      !.analyser = analyser, !.no = ticks]
       /\ UNCHANGED <<isRecording, heartRate, breathingRate, emotion, eegBands, micLevel,
                      rafCounter, dataArray, applied, ticks, samples, midTickStop, calls>>
  ELSE /\ ticks < MaxTicks
       /\ \E f \in AnalyserFrames, stop \in (IF isRecording THEN BOOLEAN ELSE {FALSE}) :
            LET e == AnalyserEstimates[f]
                data == BiometricSample(e, ticks + 1)
                id == rafCounter + 1
            IN /\ UNCHANGED calls
               /\ dataArray' = FrameAfterTick(f)
               /\ applied' = {"processAudioSignal", "estimateEmotion", "generateEEGBands"}
               /\ heartRate' = data.heartRate
               /\ breathingRate' = data.breathingRate
               /\ emotion' = data.emotion
               /\ eegBands' = data.eegBands
               /\ micLevel' = e.mic
               /\ isRecording' = IF stop THEN FALSE ELSE isRecording
               /\ midTickStop' = (midTickStop \/ stop)
               /\ samples' = samples + Len(Sinks)
               /\ ticks' = ticks + 1
               /\ rafCounter' = id
               /\ animationFrameRef' = id
               /\ rafQueue' = RequestAnimationFrame(queue, id, rec)
               /\ lastTick' = [outcome |-> "published", rec |-> rec, analyser |-> analyser,
                               events |-> TickEvents(hasMicLevel), scheduled |-> id,
                               stopRequested |-> stop,
                               delivered |-> [k \in DOMAIN Sinks |->
                                               [sink |-> Sinks[k], sample |-> data]],
                               no |-> ticks + 1,
                               micArgs |-> IF hasMicLevel THEN <<e.mic>> ELSE <<>>,
                               buffer |-> NewFloat32Array(ticks), read |-> f]

\* a handler path that does not call processAudioFrame
NoProcessAudioFrame(queue, ref) ==
  /\ rafQueue' = queue
  /\ animationFrameRef' = ref
  /\ UNCHANGED <<isRecording, heartRate, breathingRate, emotion, eegBands, micLevel,
                 rafCounter, dataArray, applied, lastTick, ticks, samples, midTickStop, calls>>

\* cancelAnimationFrame(animationFrameRef.current) when it is set
Cancelled(queue, ref) == {cb \in queue : cb.id # ref}

----------------------------------------------------------------------------
(* startIfNeeded, initializeAudio and the start/stop effect *)

TaskCount == tasks.tfReady + tasks.getUserMedia + tasks.resume

Spawn(pc) == [tasks EXCEPT ![pc] = @ + 1]

Move(from, to) == [tasks EXCEPT ![from] = @ - 1, ![to] = @ + 1]

Finish(pc) == [tasks EXCEPT ![pc] = @ - 1]

\* startIfNeeded after `await initializeAudio()` returned, for the call that
\* was at `pc`: await resume() when the context is suspended, else tick.
\* Every await of startIfNeeded is inside `if (isRecording)`, so the closure
\* of a call in flight captured isRecording = true.
AfterInitializeAudio(pc, context, analyser) ==
  IF context = "suspended"
  THEN /\ tasks' = Move(pc, "resume")
       /\ NoProcessAudioFrame(rafQueue, animationFrameRef)
  ELSE /\ tasks' = Finish(pc)
       /\ ProcessAudioFrame(TRUE, analyser, rafQueue, animationFrameRef)

\* the parent changes the isRecording prop
SetRecording ==
  /\ mounted
  /\ isRecording' = ~isRecording
  /\ midTickStop' = (midTickStop /\ isRecording)
  /\ UNCHANGED <<pageVars, hasMicLevel, isInitialized, heartRate, breathingRate, emotion, eegBands,
                 micLevel, refVars, envVars, dataArray, applied, lastTick, ticks, samples,
                 stopped, calls>>

\* React runs the effect whose dependencies changed: the previous effect's
\* cleanup, then startIfNeeded up to its first await
RunEffect ==
  /\ mounted
  /\ committed # [isRecording |-> isRecording, isInitialized |-> isInitialized]
  /\ committed' = [isRecording |-> isRecording, isInitialized |-> isInitialized]
  /\ stopped' = ~isRecording
  /\ UNCHANGED <<pageVars, hasMicLevel, isInitialized, audioContextRef, analyserRef, microphoneRef, mounted>>
  /\ LET queue == Cancelled(rafQueue, animationFrameRef)
     IN IF isRecording
        THEN IF ~isInitialized
             THEN /\ TaskCount < MaxTasks
                  /\ tasks' = Spawn("tfReady")
                  /\ NoProcessAudioFrame(queue, animationFrameRef)
             ELSE IF audioContextRef = "suspended"
             THEN /\ TaskCount < MaxTasks
                  /\ tasks' = Spawn("resume")
                  /\ NoProcessAudioFrame(queue, animationFrameRef)
             ELSE /\ UNCHANGED tasks
                  /\ ProcessAudioFrame(TRUE, analyserRef, queue, animationFrameRef)
        ELSE /\ UNCHANGED tasks
             /\ NoProcessAudioFrame(queue, 0)

\* initializeAudio: tf.ready() resolves, the AudioContext is created (suspended
\* or running, as the browser's autoplay policy decides) and getUserMedia is called
TfReadyResolves ==
  /\ tasks.tfReady > 0
  /\ \E state \in {"suspended", "running"} : audioContextRef' = state
  /\ tasks' = Move("tfReady", "getUserMedia")
  /\ NoProcessAudioFrame(rafQueue, animationFrameRef)
  /\ UNCHANGED <<pageVars, hasMicLevel, isInitialized, analyserRef, microphoneRef, mounted, committed, stopped>>

\* initializeAudio: tf.ready() rejects or the AudioContext constructor throws;
\* the catch logs it and startIfNeeded goes on
TfReadyRejects ==
  /\ tasks.tfReady > 0
  /\ AfterInitializeAudio("tfReady", audioContextRef, analyserRef)
  /\ UNCHANGED <<pageVars, hasMicLevel, isInitialized, audioContextRef, analyserRef, microphoneRef, mounted,
                 committed, stopped>>

\* initializeAudio: getUserMedia resolves, microphoneRef takes the stream's
\* source node, the analyser is created and connected, setIsInitialized(true)
\* (which React drops once the component is unmounted); startIfNeeded goes on
GetUserMediaResolves ==
  /\ tasks.getUserMedia > 0
  /\ microphoneRef' = "live"
  /\ analyserRef' = TRUE
  /\ isInitialized' = (mounted \/ isInitialized)
  /\ AfterInitializeAudio("getUserMedia", audioContextRef, TRUE)
  /\ UNCHANGED <<pageVars, hasMicLevel, audioContextRef, mounted, committed, stopped>>

\* initializeAudio: getUserMedia rejects; the catch logs it and startIfNeeded goes on
GetUserMediaRejects ==
  /\ tasks.getUserMedia > 0
  /\ AfterInitializeAudio("getUserMedia", audioContextRef, analyserRef)
  /\ UNCHANGED <<pageVars, hasMicLevel, isInitialized, audioContextRef, analyserRef, microphoneRef, mounted,
                 committed, stopped>>

\* audioContext.resume() resolves (a context closed in the meantime stays
\* closed); startIfNeeded calls processAudioFrame
ResumeResolves ==
  /\ tasks.resume > 0
  /\ audioContextRef' = IF audioContextRef = "closed" THEN "closed" ELSE "running"
  /\ tasks' = Finish("resume")
  /\ ProcessAudioFrame(TRUE, analyserRef, rafQueue, animationFrameRef)
  /\ UNCHANGED <<pageVars, hasMicLevel, isInitialized, analyserRef, microphoneRef, mounted, committed, stopped>>

\* the browser runs a pending animation-frame callback
AnimationFrame ==
  \E cb \in rafQueue :
    /\ ProcessAudioFrame(cb.rec, analyserRef, rafQueue \ {cb}, animationFrameRef)
    /\ UNCHANGED <<pageVars, hasMicLevel, isInitialized, audioContextRef, analyserRef, microphoneRef,
                   mounted, tasks, committed, stopped>>

\* the page as mounted: emotionData as useState gives it, capturing false,
\* and the auto-start effect has called startBiometricCapture, which awaits
\* getUserMedia
PageMounted ==
  /\ emotionData = [valence |-> Div(5, 10), arousal |-> Div(5, 10), dominance |-> Div(5, 10)]
  /\ updates = 0
  /\ capturing = FALSE
  /\ srcObject = "null"
  /\ cameraTasks = [getUserMedia |-> 1, play |-> 0]
  /\ processQueue = [c \in BOOLEAN |-> 0]
  /\ lastProcess = "none"

\* the component as mounted by its parents: isRecording false, the effect
\* has run its stop branch
Mounted ==
  /\ isRecording = FALSE
  /\ isInitialized = FALSE
  /\ heartRate = 0
  /\ breathingRate = 0
  /\ emotion = Zero3
  /\ eegBands = ZeroBands
  /\ micLevel = Num(0)
  /\ audioContextRef = "null"
  /\ analyserRef = FALSE
  /\ animationFrameRef = 0
  /\ microphoneRef = "null"
  /\ mounted = TRUE
  /\ rafQueue = {}
  /\ rafCounter = 0
  /\ tasks = [tfReady |-> 0, getUserMedia |-> 0, resume |-> 0]
  /\ committed = [isRecording |-> FALSE, isInitialized |-> FALSE]
  /\ applied = {}
  /\ lastTick = NoTick
  /\ ticks = 0
  /\ samples = 0
  /\ stopped = TRUE
  /\ midTickStop = FALSE
  /\ calls = [e \in {"processAudioSignal", "generateEEGBands", "estimateEmotion"} |-> 0]

Init ==
  /\ Mounted
  /\ PageMounted
  /\ hasMicLevel \in BOOLEAN
  /\ dataArray = NoFrame

Next ==
  \/ SetRecording
  \/ RunEffect
  \/ TfReadyResolves
  \/ TfReadyRejects
  \/ GetUserMediaResolves
  \/ GetUserMediaRejects
  \/ ResumeResolves
  \/ AnimationFrame

Spec == Init /\ [][Next]_vars

\* React runs an effect whose dependencies changed, the browser runs a
\* pending animation-frame callback, and tf.ready(), getUserMedia() and
\* resume() settle; the parent is free never to touch isRecording again
Fairness ==
  /\ WF_vars(RunEffect)
  /\ WF_vars(AnimationFrame)
  /\ WF_vars(TfReadyResolves \/ TfReadyRejects)
  /\ WF_vars(GetUserMediaResolves \/ GetUserMediaRejects)
  /\ WF_vars(ResumeResolves)

SpecLive == Init /\ [][Next]_vars /\ Fairness

\* An estimator raises inside a tick run from an animation-frame callback
\* (an estimator fault is injected: the code's estimators do not raise on a
\* Float32Array).  processAudioFrame has no try/catch: the exception leaves
\* the callback at the estimator call, before any state update, before
\* onBiometricData and before requestAnimationFrame; the props hold no error hook.
AnimationFrameThrows ==
  \E cb \in rafQueue :
    /\ analyserRef /\ cb.rec
    /\ ticks < MaxTicks
    /\ rafQueue' = rafQueue \ {cb}
    /\ ticks' = ticks + 1
    /\ lastTick' = [NoTick EXCEPT !.outcome = "threw", !.rec = cb.rec, !.analyser = analyserRef,
                                   !.events = <<"getFloatTimeDomainData", "throw">>,
                                   !.no = ticks + 1]
    /\ UNCHANGED <<pageVars, compVars, refVars, rafCounter, tasks, committed, mounted, dataArray,
                   applied, samples, stopped, midTickStop, calls>>

NextFault == Next \/ AnimationFrameThrows

SpecFault == Init /\ [][NextFault]_vars

\* React unmounts the component: the cleanup of the start/stop effect, then
\* the cleanup of the unmount effect.  Both cancel the callback whose id
\* animationFrameRef holds; the second closes the AudioContext that
\* audioContextRef holds and stops the tracks of the stream that
\* microphoneRef holds.  No ref is cleared and no call in flight is told.
Unmount ==
  /\ mounted
  /\ mounted' = FALSE
  /\ rafQueue' = Cancelled(Cancelled(rafQueue, animationFrameRef), animationFrameRef)
  /\ audioContextRef' = IF audioContextRef = "null" THEN "null" ELSE "closed"
  /\ microphoneRef' = IF microphoneRef = "null" THEN "null" ELSE "stopped"
  /\ UNCHANGED <<pageVars, compVars, analyserRef, animationFrameRef, rafCounter, tasks, committed, obsVars>>

\* audioContext.resume() rejects because the context was closed while the
\* call was pending: startIfNeeded ends at its await with an unhandled rejection
ResumeRejects ==
  /\ tasks.resume > 0
  /\ audioContextRef = "closed"
  /\ tasks' = Finish("resume")
  /\ NoProcessAudioFrame(rafQueue, animationFrameRef)
  /\ UNCHANGED <<pageVars, hasMicLevel, isInitialized, audioContextRef, analyserRef, microphoneRef, mounted,
                 committed, stopped>>

NextUnmount == Next \/ Unmount \/ ResumeRejects

SpecUnmount == Init /\ [][NextUnmount]_vars

----------------------------------------------------------------------------
(* The estimators on their own: each is applied to a frame drawn from Frames *)

idleVars ==
  <<isRecording, hasMicLevel, isInitialized, micLevel, analyserRef, animationFrameRef,
    microphoneRef, envVars, pageVars,
    dataArray, lastTick, ticks, samples, stopped, midTickStop>>

loopVars == <<idleVars, audioContextRef, calls>>

ApplyProcessAudioSignal ==
  /\ "processAudioSignal" \notin applied
  /\ applied' = applied \cup {"processAudioSignal"}
  /\ heartRate' = ProcessAudioSignal(dataArray, SampleRate).heartRate
  /\ breathingRate' = ProcessAudioSignal(dataArray, SampleRate).breathingRate
  /\ UNCHANGED <<emotion, eegBands, loopVars>>

ApplyGenerateEEGBands ==
  /\ "generateEEGBands" \notin applied
  /\ applied' = applied \cup {"generateEEGBands"}
  /\ eegBands' = GenerateEEGBands(dataArray, SampleRate)
  /\ UNCHANGED <<heartRate, breathingRate, emotion, loopVars>>

ApplyEstimateEmotion ==
  /\ "estimateEmotion" \notin applied
  /\ applied' = applied \cup {"estimateEmotion"}
  /\ emotion' = EstimateEmotion(dataArray, SampleRate)
  /\ UNCHANGED <<heartRate, breathingRate, eegBands, loopVars>>

InitEst ==
  /\ Mounted
  /\ PageMounted
  /\ hasMicLevel = FALSE
  /\ dataArray \in Frames

NextEst ==
  \/ ApplyProcessAudioSignal
  \/ ApplyGenerateEEGBands
  \/ ApplyEstimateEmotion

SpecEst == InitEst /\ [][NextEst]_vars

----------------------------------------------------------------------------
(* The estimators called repeatedly on one frame, in any order, before and *)
(* after the AudioContext exists                                           *)

\* SampleRateOf for a device that gives its contexts another rate than the fallback
SampleRateOfDevice(context) ==
  IF context # "null" THEN SampleRate + SampleRate \div 10 ELSE SampleRate

\* audioContextRef.current?.sampleRate || 44100: the context was created with
\* the option sampleRate: 44100
SampleRateOf(context) ==
  LET contextRate == SampleRate
  IN IF context # "null" THEN contextRate ELSE SampleRate

\* the frames the estimators are called on repeatedly
CallFrames == AnalyserFrames \cup LongFrames \cup PulseTrains

CallProcessAudioSignal ==
  /\ calls["processAudioSignal"] < MaxCalls
  /\ calls' = [calls EXCEPT !["processAudioSignal"] = @ + 1]
  /\ applied' = applied \cup {"processAudioSignal"}
  /\ heartRate' = ProcessAudioSignal(dataArray, SampleRateOf(audioContextRef)).heartRate
  /\ breathingRate' = ProcessAudioSignal(dataArray, SampleRateOf(audioContextRef)).breathingRate
  /\ UNCHANGED <<emotion, eegBands, idleVars, audioContextRef>>

CallGenerateEEGBands ==
  /\ calls["generateEEGBands"] < MaxCalls
  /\ calls' = [calls EXCEPT !["generateEEGBands"] = @ + 1]
  /\ applied' = applied \cup {"generateEEGBands"}
  /\ eegBands' = GenerateEEGBands(dataArray, SampleRateOf(audioContextRef))
  /\ UNCHANGED <<heartRate, breathingRate, emotion, idleVars, audioContextRef>>

CallEstimateEmotion ==
  /\ calls["estimateEmotion"] < MaxCalls
  /\ calls' = [calls EXCEPT !["estimateEmotion"] = @ + 1]
  /\ applied' = applied \cup {"estimateEmotion"}
  /\ emotion' = EstimateEmotion(dataArray, SampleRateOf(audioContextRef))
  /\ UNCHANGED <<heartRate, breathingRate, eegBands, idleVars, audioContextRef>>

\* audioContextRef.current = new AudioContext({ sampleRate: 44100 })
CreateAudioContext ==
  /\ audioContextRef = "null"
  /\ \E state \in {"suspended", "running"} : audioContextRef' = state
  /\ UNCHANGED <<heartRate, breathingRate, emotion, eegBands, applied, idleVars, calls>>

InitCalls ==
  /\ Mounted
  /\ PageMounted
  /\ hasMicLevel = FALSE
  /\ dataArray \in CallFrames

NextCalls ==
  \/ CallProcessAudioSignal
  \/ CallGenerateEEGBands
  \/ CallEstimateEmotion
  \/ CreateAudioContext

SpecCalls == InitCalls /\ [][NextCalls]_vars

----------------------------------------------------------------------------
(* The consuming page: FractalStudio's emotionData handlers and camera capture *)

\* x as a count of 1/den, den a power of ten that x.den divides
Rescale(x, den) == x.num * (den \div x.den)

\* Blend that adds the weighted new value to the whole previous value
BlendAdditive(prev, wp, val, wv) ==
  LET den == IF prev.den >= val.den THEN prev.den ELSE val.den
  IN Div(Rescale(prev, den) * 10 + Rescale(val, den) * wv, den * 10)

\* prev * wp/10 + val * wv/10, exactly; prev and val have power-of-ten denominators
Blend(prev, wp, val, wv) ==
  LET den == IF prev.den >= val.den THEN prev.den ELSE val.den
  IN Div(Rescale(prev, den) * wp + Rescale(val, den) * wv, den * 10)

\* Math.max(0, Math.min(1, x))
Clamp01(x) == MathMax(Num(0), MathMin(Num(1), x))

\* emotion vectors of a sample, in thousandths: valence in [-1,1], arousal
\* and dominance in [0,1], as estimateEmotion returns them
SampleEmotions ==
  {[valence |-> -1000, arousal |-> 0, dominance |-> 0],
   [valence |-> -762, arousal |-> 462, dominance |-> 500],
   [valence |-> 1000, arousal |-> 1000, dominance |-> 1000]}

\* metrics.features absent
NoFeatures == [present |-> FALSE, faceVariance |-> 0, handOpenness |-> 0, poseStability |-> 0,
               confidence |-> 0]

\* the metrics MediaPipeSensors passes to onMetrics, features in tenths:
\* nothing seen and no features; a face with all features zero; two hands, a
\* face and a pose with large features
SensorMetrics ==
  {[hands |-> 0, faces |-> 0, poses |-> 0, features |-> NoFeatures],
   [hands |-> 0, faces |-> 1, poses |-> 0,
    features |-> [present |-> TRUE, faceVariance |-> 0, handOpenness |-> 0,
                  poseStability |-> 0, confidence |-> 4]],
   [hands |-> 2, faces |-> 1, poses |-> 1,
    features |-> [present |-> TRUE, faceVariance |-> 20, handOpenness |-> 10,
                  poseStability |-> 10, confidence |-> 10]]}

\* handleBiometricData(data): emotionData after the update
HandleBiometricDataOf(prev, e) ==
  LET val == Clamp01(Div(e.valence + 1000, 2000))
      aro == Clamp01(Div(e.arousal, 1000))
      dom == Clamp01(Div(e.dominance, 1000))
  IN [valence |-> Blend(prev.valence, 6, val, 4),
      arousal |-> Blend(prev.arousal, 6, aro, 4),
      dominance |-> Blend(prev.dominance, 6, dom, 4)]

\* handleMediaPipeMetrics(metrics): emotionData after the update
HandleMediaPipeMetricsOf(prev, n) ==
  LET ft == n.features
      activity == MathMin(Num(1), Div(n.hands * 2 + n.faces * 3 + n.poses * 4, 10))
      featureBoost ==
        IF ft.present
        THEN MathMin(Num(1), Div(ft.handOpenness * 4 + ft.faceVariance * 3
                                   + ft.poseStability * 5 + ft.confidence * 6, 100))
        ELSE Num(0)
      val == Clamp01(Div(500 + (IF n.faces > 0 THEN 120 ELSE -80)
                           + (IF ft.present THEN (ft.faceVariance - 2) * 30 ELSE 0), 1000))
      aro == Clamp01(Div(Rescale(activity, 100) * 7 + Rescale(featureBoost, 100) * 3, 1000))
      dom == Clamp01(Div(400 + n.poses * 150 + n.hands * 100
                           + (IF ft.present THEN ft.poseStability * 25 ELSE 0), 1000))
  IN [valence |-> Blend(prev.valence, 7, val, 3),
      arousal |-> Blend(prev.arousal, 5, aro, 5),
      dominance |-> Blend(prev.dominance, 6, dom, 4)]

componentVars == <<compVars, refVars, envVars, obsVars>>

captureVars == <<capturing, srcObject, cameraTasks, processQueue, lastProcess>>

\* RealBiometricCapture delivers a sample to onBiometricData
HandleBiometricData ==
  /\ updates < MaxUpdates
  /\ updates' = updates + 1
  /\ \E e \in SampleEmotions : emotionData' = HandleBiometricDataOf(emotionData, e)
  /\ UNCHANGED <<componentVars, captureVars>>

\* MediaPipeSensors delivers metrics to onMetrics
HandleMediaPipeMetrics ==
  /\ updates < MaxUpdates
  /\ updates' = updates + 1
  /\ \E metrics \in SensorMetrics :
       emotionData' = HandleMediaPipeMetricsOf(emotionData, metrics)
  /\ UNCHANGED <<componentVars, captureVars>>

\* startBiometricCapture calls in flight
CameraTaskCount == cameraTasks.getUserMedia + cameraTasks.play

\* `process` callbacks pending
PendingProcess == processQueue[TRUE] + processQueue[FALSE]

\* the value of `capturing` that the `process` closure of a
\* startBiometricCapture call holds: the call went past `if (capturing) return`
\* and `capturing` is a const of that render, so it is false
CapturedCapturing == FALSE

\* the Start button, enabled while capturing is false: startBiometricCapture
\* passes its guard and awaits getUserMedia
StartBiometricCapture ==
  /\ ~capturing
  /\ CameraTaskCount + PendingProcess < MaxTasks
  /\ cameraTasks' = [cameraTasks EXCEPT !.getUserMedia = @ + 1]
  /\ UNCHANGED <<componentVars, emotionData, updates, capturing, srcObject, processQueue,
                 lastProcess>>

\* getUserMedia resolves: the video element takes the stream and play() is awaited
CameraResolves ==
  /\ cameraTasks.getUserMedia > 0
  /\ cameraTasks' = [cameraTasks EXCEPT !.getUserMedia = @ - 1, !.play = @ + 1]
  /\ srcObject' = "live"
  /\ UNCHANGED <<componentVars, emotionData, updates, capturing, processQueue, lastProcess>>

\* getUserMedia rejects: the catch shows a toast
CameraRejects ==
  /\ cameraTasks.getUserMedia > 0
  /\ cameraTasks' = [cameraTasks EXCEPT !.getUserMedia = @ - 1]
  /\ UNCHANGED <<componentVars, emotionData, updates, capturing, srcObject, processQueue,
                 lastProcess>>

\* play() settles (its rejection is swallowed): setCapturing(true) and
\* requestAnimationFrame(process)
PlaySettles ==
  /\ cameraTasks.play > 0
  /\ cameraTasks' = [cameraTasks EXCEPT !.play = @ - 1]
  /\ capturing' = TRUE
  /\ processQueue' = [processQueue EXCEPT ![CapturedCapturing] = @ + 1]
  /\ UNCHANGED <<componentVars, emotionData, updates, srcObject, lastProcess>>

\* the browser runs a pending `process` callback whose closure holds
\* capturing = c: it returns at `if (!capturing) return`, or it reads the
\* video frame (brightness v/10, motion a/10), sets emotionData and
\* schedules itself again
Process ==
  \E c \in BOOLEAN :
    /\ processQueue[c] > 0
    /\ IF ~c
       THEN /\ processQueue' = [processQueue EXCEPT ![c] = @ - 1]
            /\ lastProcess' = "returned"
            /\ UNCHANGED emotionData
       ELSE /\ \E v \in {0, 5, 10}, a \in {0, 5, 10} :
                 LET val == Clamp01(Div(v, 10))
                 IN emotionData' = [valence |-> val,
                                    arousal |-> Clamp01(Div(a, 10)),
                                    dominance |-> Clamp01(Div(200 + 60 * Rescale(val, 10), 1000))]
            /\ lastProcess' = "processed"
            /\ UNCHANGED processQueue
    /\ UNCHANGED <<componentVars, updates, capturing, srcObject, cameraTasks>>

\* the Stop button, enabled while capturing is true: setCapturing(false),
\* the stream's tracks are stopped and the video element is cleared
StopBiometricCapture ==
  /\ capturing
  /\ capturing' = FALSE
  /\ srcObject' = "null"
  /\ UNCHANGED <<componentVars, emotionData, updates, cameraTasks, processQueue, lastProcess>>

NextPage ==
  \/ HandleBiometricData
  \/ HandleMediaPipeMetrics
  \/ StartBiometricCapture
  \/ CameraResolves
  \/ CameraRejects
  \/ PlaySettles
  \/ Process
  \/ StopBiometricCapture

SpecPage == Init /\ [][NextPage]_vars

----------------------------------------------------------------------------
(* Properties *)

PendingIds == {cb.id : cb \in rafQueue}

Published == lastTick.outcome = "published"

\* the position of the call e in the tick's sequence of calls, 0 if absent
EventIndex(events, e) ==
  IF \E i \in DOMAIN events : events[i] = e
  THEN CHOOSE i \in DOMAIN events : events[i] = e
  ELSE 0

\* C1: while the parent holds isRecording false and the effect's stop branch
\* has run, no step executes a tick, delivers a sample or schedules a callback
C1_StopIsFinal ==
  [][(stopped /\ ~isRecording /\ stopped' /\ ~isRecording')
       => (ticks' = ticks /\ samples' = samples /\ rafQueue' \subseteq rafQueue)]_vars

\* C2: a tick in which an estimator threw published nothing, reported the
\* error to an error hook and left a next tick scheduled
C2_FaultAbortsOnlyTheTick ==
  [][(lastTick'.outcome = "threw" /\ ticks' # ticks)
       => (/\ samples' = samples
           /\ lastTick'.delivered = <<>>
           /\ EventIndex(lastTick'.events, "onError") # 0
           /\ rafQueue' # {})]_vars

\* C3: a processAudioFrame call made while recording with no analyser
\* publishes nothing and leaves a next tick scheduled
C3_MissingFrameRetries ==
  [][(lastTick' # lastTick /\ lastTick'.outcome = "returned"
        /\ lastTick'.rec /\ ~lastTick'.analyser)
       => (samples' = samples /\ rafQueue' # {})]_vars

\* C4: every band power generateEEGBands returns is in [0,1], and is 0 for a
\* band whose window length is 0
C4_BandPowerInUnitRange ==
  "generateEEGBands" \in applied =>
    \A b \in BandNames :
      /\ InRange(eegBands[b], 0, 1)
      /\ WindowSize(dataArray, Bands[b].min, Bands[b].max, SampleRate) = 0
           => (eegBands[b].num = 0 /\ eegBands[b].den > 0)

\* C5: processAudioSignal returns an integer heartRate in [60,120] and an
\* integer breathingRate in [8,20], for every frame
C5_VitalsInRange ==
  "processAudioSignal" \in applied =>
    /\ heartRate \in HeartRateMin..HeartRateMax
    /\ breathingRate \in BreathingRateMin..BreathingRateMax

\* C5 witness: a frame with three peaks whose rates lie strictly inside
\* both clamps
C5_Witness ==
  /\ "processAudioSignal" \in applied
  /\ Len(Peaks(dataArray)) > 2
  /\ HeartRateMin < heartRate /\ heartRate < HeartRateMax
  /\ BreathingRateMin < breathingRate /\ breathingRate < BreathingRateMax
  /\ breathingRate # BreathingRateDefault

\* C6: estimateEmotion returns valence in [-1,1], arousal and dominance in
\* [0,1], none of them NaN, for every frame
C6_EmotionInRange ==
  "estimateEmotion" \in applied =>
    /\ InRange(emotion.valence, -1, 1)
    /\ InRange(emotion.arousal, 0, 1)
    /\ InRange(emotion.dominance, 0, 1)

\* C7: a tick during which a callback asked to stop still delivers its
\* sample, and no tick runs after it while recording stays off
C7_StopMidTick ==
  [][/\ (ticks' # ticks /\ lastTick'.stopRequested)
          => (lastTick'.outcome = "published" /\ samples' = samples + 1)
     /\ (midTickStop /\ midTickStop') => ticks' = ticks]_vars

\* C8: the effect running again with isRecording still true while a tick is
\* pending executes no tick, publishes no sample and leaves the one pending
\* callback as it is
C8_StartIdempotent ==
  [][(/\ committed' # committed
      /\ committed.isRecording /\ committed'.isRecording
      /\ animationFrameRef \in PendingIds)
       => (ticks' = ticks /\ samples' = samples /\ rafQueue' = rafQueue)]_vars

C10_SinkBeforeReschedule ==
  [][(ticks' # ticks /\ lastTick'.outcome = "published")
       => LET ev == lastTick'.events
          IN /\ EventIndex(ev, "onBiometricData") # 0
             /\ EventIndex(ev, "onBiometricData") < EventIndex(ev, "requestAnimationFrame")
             /\ EventIndex(ev, "requestAnimationFrame") = Len(ev)
             /\ ticks' = ticks + 1
             /\ lastTick'.scheduled \in {cb.id : cb \in rafQueue'} \ PendingIds]_vars

\* C10 witness: a tick run from an animation-frame callback has published
C10_Witness == Published /\ ticks >= 2 /\ lastTick.scheduled \in PendingIds

\* how many times the call e occurs among the tick's calls
EventCount(events, e) == Cardinality({i \in DOMAIN events : events[i] = e})

\* C11: a tick that processes a frame calls onMicLevel, when supplied,
\* exactly once, with the level it stored: clamp(rms * 10, 0, 1) of the
\* frame it read, which is 0 exactly for silence and 1 exactly when
\* rms >= 0.1; micLevel is always in [0,1]
C11_MicLevelOncePerTick ==
  /\ InRange(micLevel, 0, 1)
  /\ Published =>
       /\ EventCount(lastTick.events, "onMicLevel") = (IF hasMicLevel THEN 1 ELSE 0)
       /\ lastTick.micArgs = (IF hasMicLevel THEN <<micLevel>> ELSE <<>>)
       /\ (micLevel.num = 0) <=> (TotalEnergy(dataArray) = 0)
       /\ Le(Num(1), micLevel)
            <=> (100 * TotalEnergy(dataArray) >= dataArray.len * SampleScale * SampleScale)

\* C11 witness: a tick passed a level strictly between 0 and 1 to onMicLevel
C11_Witness ==
  /\ Published /\ hasMicLevel
  /\ Len(lastTick.micArgs) = 1
  /\ lastTick.micArgs[1].num > 0
  /\ ~Le(Num(1), lastTick.micArgs[1])

Estimators == {"processAudioSignal", "generateEEGBands", "estimateEmotion"}

\* x is the number 0
IsZero(x) == x.num = 0 /\ x.den > 0

\* C12: for a frame of length 0 or 1 the estimators return the default
\* vitals 60 and 12, zero power in all five bands and an emotion vector
\* whose components are numbers in their ranges
C12_ShortFrameDefaults ==
  (applied = Estimators /\ dataArray.len <= 1) =>
    /\ heartRate = HeartRateDefault
    /\ breathingRate = BreathingRateDefault
    /\ \A b \in BandNames : IsZero(eegBands[b])
    /\ InRange(emotion.valence, -1, 1)
    /\ InRange(emotion.arousal, 0, 1)
    /\ InRange(emotion.dominance, 0, 1)

\* the frame holds only zeros and is not empty
Silent(f) == f.len > 0 /\ DOMAIN f.nz = {}

\* C13: on an all-zero frame processAudioSignal finds no peak, divides by
\* nothing that is 0 and returns the defaults 60 and 12
C13_SilentFrameDefaults ==
  ("processAudioSignal" \in applied /\ Silent(dataArray)) =>
    /\ Peaks(dataArray) = <<>>
    /\ \A d \in Divisors(dataArray) : ~IsZero(d) /\ ~IsNaN(d)
    /\ heartRate = HeartRateDefault
    /\ breathingRate = BreathingRateDefault

\* C13 witness: processAudioSignal has run on 1024 zeros
C13_Witness ==
  /\ "processAudioSignal" \in applied
  /\ Silent(dataArray) /\ dataArray.len = FrameLength
  /\ heartRate = HeartRateDefault

\* lo/1000 <= x <= hi/1000, x a number (not NaN)
InMilliRange(x, lo, hi) == Le(Div(lo, 1000), x) /\ Le(x, Div(hi, 1000))

\* C14: for 1024 zeros estimateEmotion returns valence within 0.1 of 0,
\* arousal 0 and dominance tanh(1) to two decimals, and generateEEGBands
\* returns 0 for all five bands
C14_SilentFrameScenario ==
  (applied = Estimators /\ Silent(dataArray) /\ dataArray.len = FrameLength) =>
    /\ InMilliRange(emotion.valence, -100, 100)
    /\ IsZero(emotion.arousal)
    /\ InMilliRange(emotion.dominance, 755, 765)
    /\ \A b \in BandNames : IsZero(eegBands[b])

\* round(clamp(x / y, lo, hi)) for integers x >= 0, y > 0, lo <= hi
RoundedClamp(x, y, lo, hi) ==
  IF x >= hi * y THEN hi
  ELSE IF x <= lo * y THEN lo
  ELSE (2 * x + y) \div (2 * y)

\* the indices of a frame's non-zero samples, in increasing order
PulseIndices(f) == SortedSeq(DOMAIN f.nz)

\* the spacing of a frame's first two non-zero samples
Spacing(f) == PulseIndices(f)[2] - PulseIndices(f)[1]

\* the frame is a periodic pulse train: equal positive pulses at p, p + d,
\* p + 2d, ... up to its end, at least two of them, with 0 <= p < d and d >= 2
IsPulseTrain(f) ==
  /\ Cardinality(DOMAIN f.nz) >= 2
  /\ \E a \in {f.nz[i] : i \in DOMAIN f.nz} : a > 0 /\ \A i \in DOMAIN f.nz : f.nz[i] = a
  /\ LET p == PulseIndices(f)[1]
         d == Spacing(f)
     IN /\ d >= 2 /\ p < d
        /\ DOMAIN f.nz = {p + k * d : k \in 0..((f.len - 1 - p) \div d)}

\* the pulses of a frame that are neither its first nor its last sample
InteriorPulses(f) == {i \in DOMAIN f.nz : 1 <= i /\ i < f.len - 1}

\* the reference rule for heart rate: 60 with fewer than 2 peaks, else
\* round(clamp(sampleRate / ((last - first) / (count - 1)) * 60, 60, 120))
HeartRateRule(f) ==
  LET peaks == Peaks(f)
      n == Len(peaks)
  IN IF n < 2 THEN HeartRateDefault
     ELSE RoundedClamp(SampleRate * 60 * (n - 1), peaks[n] - peaks[1],
                       HeartRateMin, HeartRateMax)

\* C15 as stated: heartRate follows the reference rule, and every periodic
\* pulse train with spacing d gives round(clamp(sampleRate / d * 60, 60, 120))
C15_PulseTrainRate ==
  "processAudioSignal" \in applied =>
    /\ heartRate = HeartRateRule(dataArray)
    /\ IsPulseTrain(dataArray)
         => heartRate = RoundedClamp(SampleRate * 60, Spacing(dataArray),
                                     HeartRateMin, HeartRateMax)

\* C15 amended: heartRate follows the reference rule; a periodic pulse
\* train gives round(clamp(sampleRate / d * 60, 60, 120)) when at least two
\* of its pulses are detected as peaks, which is so whenever d >= 3 and two
\* pulses lie off the ends of the frame, and gives the default 60 otherwise
C15_DetectedPulseTrainRate ==
  "processAudioSignal" \in applied =>
    /\ heartRate = HeartRateRule(dataArray)
    /\ IsPulseTrain(dataArray) =>
         /\ (Spacing(dataArray) >= 3 /\ Cardinality(InteriorPulses(dataArray)) >= 2)
              => Len(Peaks(dataArray)) >= 2
         /\ heartRate = IF Len(Peaks(dataArray)) >= 2
                        THEN RoundedClamp(SampleRate * 60, Spacing(dataArray),
                                          HeartRateMin, HeartRateMax)
                        ELSE HeartRateDefault

\* C15 witness: processAudioSignal has run on a pulse train whose rate lies
\* strictly inside the clamp
C15_Witness ==
  /\ "processAudioSignal" \in applied
  /\ IsPulseTrain(dataArray)
  /\ Len(Peaks(dataArray)) >= 2
  /\ HeartRateMin < heartRate /\ heartRate < HeartRateMax

\* the reference rule for breathing rate: 12 with fewer than 3 peaks, else
\* round(clamp(sampleRate / mean(peak[i] - peak[i-2], i = 2, 4, ...) * 30, 8, 20)),
\* peaks counted from 0
BreathingRateRule(f) ==
  LET peaks == Peaks(f)
      n == Len(peaks)
      even == {i \in 2..(n - 1) : i % 2 = 0}
      total == SumOver(even, [i \in even |-> peaks[i + 1] - peaks[i - 1]])
  IN IF n < 3 THEN BreathingRateDefault
     ELSE RoundedClamp(SampleRate * 30 * Cardinality(even), total,
                       BreathingRateMin, BreathingRateMax)

\* C16: breathingRate follows the reference rule for every frame
C16_BreathingRateRule ==
  "processAudioSignal" \in applied => breathingRate = BreathingRateRule(dataArray)

\* C16 witness: processAudioSignal has run on a frame with four peaks whose
\* breathing rate lies strictly inside the clamp
C16_Witness ==
  /\ "processAudioSignal" \in applied
  /\ Len(Peaks(dataArray)) >= 4
  /\ BreathingRateMin < breathingRate /\ breathingRate < BreathingRateMax

C19_SampleIsFullAggregate ==
  Published =>
    \A k \in DOMAIN lastTick.delivered :
      LET sample == lastTick.delivered[k].sample
      IN /\ {"heartRate", "breathingRate", "eegBands", "emotion", "timestamp"}
              \subseteq DOMAIN sample
         /\ sample.heartRate = heartRate /\ sample.breathingRate = breathingRate
         /\ sample.emotion = emotion
         /\ DOMAIN sample.eegBands = BandNames /\ sample.eegBands = eegBands
         /\ sample.timestamp = ticks
         /\ "micLevel" \in DOMAIN sample
         /\ sample.micLevel = micLevel
         /\ InRange(sample.micLevel, 0, 1)

IsReferencePeak(f, i, energy) ==
  /\ 1 <= i /\ i <= f.len - 2
  /\ At(f, i) > 0
  /\ 4 * At(f, i) * At(f, i) * f.len > 9 * energy
  /\ At(f, i) > At(f, i - 1)
  /\ At(f, i) > At(f, i + 1)

\* the indices the reference definition is evaluated at: every index of a
\* frame of up to FrameLength samples, and the non-zero samples of a longer
\* one (a sample that is 0 is not above 1.5 * RMS >= 0)
ReferenceIndices(f) == IF f.len <= FrameLength THEN 0..(f.len - 1) ELSE DOMAIN f.nz

\* C21: the detected peaks are exactly the indices that satisfy the
\* reference definition, in increasing order; index 0 and N - 1 are never peaks
C21_PeaksMatchReference ==
  "processAudioSignal" \in applied =>
    LET peaks == Peaks(dataArray)
        energy == TotalEnergy(dataArray)
    IN /\ \A j \in 1..(Len(peaks) - 1) : peaks[j] < peaks[j + 1]
       /\ \A k \in DOMAIN peaks : peaks[k] # 0 /\ peaks[k] # dataArray.len - 1
       /\ {peaks[k] : k \in DOMAIN peaks}
            = {i \in ReferenceIndices(dataArray) : IsReferencePeak(dataArray, i, energy)}

\* C21 witness: processAudioSignal has run on a frame with two peaks whose
\* last sample is a pulse above the threshold and above its neighbour
C21_Witness ==
  /\ "processAudioSignal" \in applied
  /\ Len(Peaks(dataArray)) >= 2
  /\ dataArray.len >= 2
  /\ ExceedsThreshold(At(dataArray, dataArray.len - 1), TotalEnergy(dataArray), dataArray.len)
  /\ At(dataArray, dataArray.len - 1) > At(dataArray, dataArray.len - 2)

\* C26: detected peaks are at least 2 indices apart, so the mean inter-peak
\* distance is at least 2 and every every-other-peak interval at least 4,
\* and the divisors of both BPM conversions are positive
C26_PeaksNotAdjacent ==
  "processAudioSignal" \in applied =>
    LET peaks == Peaks(dataArray)
        n == Len(peaks)
        iv == BreathingIntervals(peaks)
    IN /\ \A j \in 1..(n - 1) : peaks[j + 1] - peaks[j] >= 2
       /\ n >= 2 => peaks[n] - peaks[1] >= 2 * (n - 1)
       /\ n >= 3 => (Len(iv) > 0 /\ \A j \in DOMAIN iv : iv[j] >= 4)
       /\ \A d \in Divisors(dataArray) \ {Num(dataArray.len)} : d.num > 0 /\ d.den > 0

\* C26 witness: processAudioSignal has run on a frame with three peaks, each
\* 2 indices after the one before
C26_Witness ==
  /\ "processAudioSignal" \in applied
  /\ Len(Peaks(dataArray)) >= 3
  /\ \A j \in 1..(Len(Peaks(dataArray)) - 1) :
       Peaks(dataArray)[j + 1] - Peaks(dataArray)[j] = 2

\* C27: on a frame of 1024 samples at 44100 Hz heartRate is 120 with two or
\* more peaks and 60 otherwise, and breathingRate is 20 with three or more
\* peaks and 12 otherwise
C27_LoopVitalsTwoValued ==
  ("processAudioSignal" \in applied /\ dataArray.len = FrameLength) =>
    /\ heartRate = (IF Len(Peaks(dataArray)) >= 2 THEN HeartRateMax ELSE HeartRateDefault)
    /\ breathingRate
         = (IF Len(Peaks(dataArray)) >= 3 THEN BreathingRateMax ELSE BreathingRateDefault)

\* C27 witness: processAudioSignal has run on a frame of 1024 samples whose
\* three peaks span it from index 1 to index 1022
C27_Witness ==
  /\ "processAudioSignal" \in applied
  /\ dataArray.len = FrameLength
  /\ Peaks(dataArray) = <<1, FrameLength \div 2, FrameLength - 2>>
  /\ heartRate = HeartRateMax /\ breathingRate = BreathingRateMax

\* C22: at most one processAudioFrame callback is pending, and it is the
\* one whose id animationFrameRef holds
C22_SinglePendingCallback ==
  /\ Cardinality(rafQueue) <= 1
  /\ \A cb \in rafQueue : cb.id = animationFrameRef

\* C25: a failing initializeAudio leaves isInitialized as it was and lets
\* startIfNeeded go on (to resume() or to processAudioFrame, which returns at
\* its guard); while the analyser is absent isInitialized is false, no sample
\* and no mic level has been published and no callback is pending
C25_FailedInitPublishesNothing ==
  [][/\ (TfReadyRejects \/ GetUserMediaRejects)
          => /\ isInitialized' = isInitialized
             /\ TaskCount' <= TaskCount
             /\ ~analyserRef
                  => (tasks'.resume = tasks.resume + 1 \/ lastTick'.outcome = "returned")
     /\ ~analyserRef'
          => /\ ~isInitialized'
             /\ samples' = 0 /\ ticks' = 0
             /\ micLevel' = Num(0)
             /\ rafQueue' = {}]_vars

\* C25 witness: initializeAudio has failed and startIfNeeded has called
\* processAudioFrame while recording with no analyser
C25_Witness ==
  /\ ~analyserRef /\ isRecording
  /\ TaskCount = 0
  /\ lastTick.outcome = "returned" /\ lastTick.rec
  /\ committed.isRecording

\* initializeAudio calls in flight: awaiting tf.ready() or getUserMedia()
PendingInitializeAudio == tasks.tfReady + tasks.getUserMedia

\* C24: while more than one initializeAudio call is in flight, a call creates
\* an AudioContext only when the component has none and obtains a microphone
\* stream only when no earlier call has obtained one
C24_InitializedAtMostOnce ==
  [][/\ (TfReadyResolves /\ PendingInitializeAudio > 1) => audioContextRef = "null"
     /\ (GetUserMediaResolves /\ PendingInitializeAudio > 1) => ~analyserRef]_vars

\* what the refs hold is released: no open AudioContext, no live stream
Released ==
  /\ audioContextRef \in {"null", "closed"}
  /\ microphoneRef \in {"null", "stopped"}

\* C23: once the component is unmounted no tick runs, so no sample and no
\* mic level reaches the parent, and when no async call is in flight any
\* more the AudioContext and the stream the refs hold are released
C23_UnmountReleasesEverything ==
  [][/\ ~mounted => (samples' = samples /\ ticks' = ticks)
     /\ (~mounted' /\ TaskCount' = 0) => Released']_vars

\* C28: emotionData.valence, arousal and dominance are numbers in [0,1]
\* after any sequence of handleBiometricData and handleMediaPipeMetrics updates
C28_EmotionDataInUnitRange ==
  \A k \in {"valence", "arousal", "dominance"} : InRange(emotionData[k], 0, 1)

\* C28 witness: handleMediaPipeMetrics has clamped valence (0.62 + 1.8 * 0.3)
\* and arousal to 1, and handleBiometricData has then blended in a sample
\* at the top of the estimator's ranges
C28_Witness ==
  /\ updates = 2
  /\ Le(emotionData.valence, Div(79, 100)) /\ Le(Div(79, 100), emotionData.valence)
  /\ Le(emotionData.arousal, Div(85, 100)) /\ Le(Div(85, 100), emotionData.arousal)
  /\ Le(emotionData.dominance, Div(82, 100)) /\ Le(Div(82, 100), emotionData.dominance)

\* C29: a `process` callback that runs while capturing is true processes the
\* frame and leaves a callback pending, and a callback that runs while
\* capturing is false schedules nothing
C29_ProcessLoopRuns ==
  [][Process => /\ capturing => (lastProcess' = "processed" /\ PendingProcess' > 0)
                /\ ~capturing => PendingProcess' < PendingProcess]_vars

====
